---- MODULE Spec2Model ----
(***************************************************************************)
(* A model of src/review_environments/main.py: main() resolves the         *)
(* repositories of an account (list_github_repos) and audits the           *)
(* environments of each one (analyze_github_repo_environments), writing    *)
(* SECRET and VARIABLE rows to a CSV file.                                 *)
(*                                                                         *)
(* The program is sequential.  A step of the model is one HTTP request     *)
(* together with the code that handles its response up to the next         *)
(* request; the response (status code and JSON body) is the step's input.  *)
(***************************************************************************)
EXTENDS Integers, Sequences, FiniteSets

VARIABLES
    pc,                    \* position of main()
    github_token,          \* os.environ.get("GITHUB_TOKEN")
    org_name,              \* args.org
    exit_status,           \* <<>> while running, then <<the exit code>>
    disk,                  \* the file at args.csv: "absent", "stale", "written"
    sinkState,             \* the with-block's file: "unopened", "open", "closed"
    sink,                  \* rows passed to csv_writer.writerow, in order
    \* locals of list_github_repos (repos is also main's, once returned)
    org_response, base_url, page, repos, response,
    served,                \* history: the page responses this call received
    \* locals of main's loop and of analyze_github_repo_environments
    repoIdx, repo_name, environments_response, environments, envIdx,
    secrets_response, variables_response, results,
    trace                  \* history: calls, returns, requests, open and close

vars == <<pc, github_token, org_name, exit_status, disk, sinkState, sink,
          org_response, base_url, page, repos, response, served,
          repoIdx, repo_name, environments_response, environments, envIdx,
          secrets_response, variables_response, results, trace>>

resolverVars == <<org_response, base_url, page, repos, response, served>>
auditVars == <<repoIdx, repo_name, environments_response, environments,
               envIdx, secrets_response, variables_response, results>>
auditLocals == <<environments_response, environments, envIdx,
                 secrets_response, variables_response, results>>
fileVars == <<disk, sinkState, sink>>

----------------------------------------------------------------------------
(* Bounds and input domains *)

\* The number of page requests the modelled API answers.
NumPages == 3
\* The largest page the modelled API returns (per_page=100 in the code).
FullPage == 2

Statuses == {200, 204, 404}
Accounts == {"acme", "octocat"}
RepoNames == {"o/a", "o/b"}
\* os.environ.get returns None for an unset variable
Unset == "<None>"
Tokens == {Unset, "", "ghp_token"}

SeqsUpTo(S, n) == UNION {[1..k -> S] : k \in 0..n}

\* A response that has not been received.
None == [status_code |-> 0, json |-> <<>>]
Resp(s, j) == [status_code |-> s, json |-> j]
\* The body of an error response; a 204 has no body.
ErrorBody == [message |-> "Not Found"]

\* Page bodies: JSON arrays of repository objects.
RepoObjects == {[full_name |-> n] : n \in RepoNames}
PageBodies == SeqsUpTo(RepoObjects, FullPage)
\* The pages served in a whole run: the account's repositories, one a page.
Catalog == <<"o/a", "o/b", "o/c", "o/d">>
MainPageBodies ==
    {<<>>, <<[full_name |-> Catalog[((page - 1) % Len(Catalog)) + 1]]>>}

\* Environment listings: {"environments": [...]} or an object without the key.
EnvBodies ==
    { <<>>,
      [environments |-> <<>>],
      [environments |-> <<[name |-> "dev"]>>],
      [environments |-> <<[name |-> "prod"], [name |-> "dev"]>>] }
SecretBodies ==
    { <<>>,
      [secrets |-> <<>>],
      [secrets |-> <<[name |-> "B"], [name |-> "A"]>>] }
VariableBodies ==
    { <<>>,
      [variables |-> <<>>],
      [variables |-> <<[name |-> "Y"], [name |-> "X", value |-> "1"]>>] }

\* The responses a request can receive: a body is read only from a 200.
Responses(bodies) ==
    {Resp(200, b) : b \in bodies} \cup {Resp(204, <<>>), Resp(404, ErrorBody)}

----------------------------------------------------------------------------
(* Helpers of the code *)

\* dict.get(key, default)
Get(d, k, default) == IF k \in DOMAIN d THEN d[k] ELSE default

\* Variant: any 2xx status of the probe selects the organization endpoint.
BaseUrlAny2xx(status) == IF status \notin 200..299 THEN "users" ELSE "orgs"

\* line 100: org_response.status_code != 200 selects the user endpoint
BaseUrl(status) == IF status # 200 THEN "users" ELSE "orgs"

\* line 116: response.status_code != 200 ends the paging
PageFailed(status) == status # 200

\* line 122: not page_repos
Empty(page_repos) == DOMAIN page_repos = {}

\* Variant: the page number is not incremented.
NextPageSame(p) == p

\* line 126: page += 1
NextPage(p) == p + 1

\* Variant: the credential is never found missing.
MissingNever(token) == FALSE

\* line 148: not github_token
Missing(token) == token \in {Unset, ""}

\* Variant: the loop stops one repository early.
HasNextButLast(idx, rs) == idx < Len(rs) - 1

\* line 158: the for loop has a next repository
HasNext(idx, rs) == idx < Len(rs)

\* Variant: the loop stays on the same environment.
NextEnvSame(e) == e

\* line 40: the for loop moves to the next environment
NextEnv(e) == e + 1

\* Variant: a page's names are put in front of the earlier ones.
ExtendInFront(rs, page_repos) ==
    [i \in 1..Len(page_repos) |-> page_repos[i].full_name] \o rs

\* line 125: repos.extend([repo["full_name"] for repo in page_repos])
Extend(rs, page_repos) ==
    rs \o [i \in 1..Len(page_repos) |-> page_repos[i].full_name]

\* Variant: a failed environments listing is not detected.
EnvironmentsFailedNever(status) == FALSE

\* line 30: environments_response.status_code != 200 returns at once
EnvironmentsFailed(status) == status # 200

\* line 47: secrets_response.status_code == 200
SecretsOk(status) == status = 200

\* Variant: the variables are read only when the secrets call succeeded.
VariablesOkAfterSecrets(status) ==
    status = 200 /\ secrets_response.status_code = 200

\* line 58: variables_response.status_code == 200
VariablesOk(status) == status = 200

\* A row of results: the list given to writerow, and where it comes from:
\* <<invocation, environment index, index in its API response>>.
Row(fields, i, e, n) == [row |-> fields, at |-> <<i, e, n>>]

\* lines 49-50: one SECRET row per secret, in response order
SecretRows(i, repo, e, env_name, secrets) ==
    [n \in 1..Len(secrets) |->
        Row(<<"SECRET", repo, env_name, secrets[n].name>>, i, e, n)]

\* Variant: a variable without a value gives a row without the value field.
VariableRowsNoDefault(i, repo, e, env_name, variables) ==
    [n \in 1..Len(variables) |->
        Row(IF "value" \in DOMAIN variables[n]
              THEN <<"VARIABLE", repo, env_name, variables[n].name,
                     variables[n].value>>
              ELSE <<"VARIABLE", repo, env_name, variables[n].name>>, i, e, n)]

\* lines 60-67: one VARIABLE row per variable, in response order
VariableRows(i, repo, e, env_name, variables) ==
    [n \in 1..Len(variables) |->
        Row(<<"VARIABLE", repo, env_name, variables[n].name,
              Get(variables[n], "value", "")>>, i, e, n)]

\* Variant: new rows are put in front of the collected ones.
AppendRowsInFront(rs, rows) == rows \o rs

\* lines 50, 61: results.append(...)
AppendRows(rs, rows) == rs \o rows

\* lines 72-73: for row in results: csv_writer.writerow(row)
WriteRows(s, rs) == s \o rs

\* Events of the trace.
Call(fn, i) == [ev |-> "call", fn |-> fn, i |-> i, arg |-> ""]
Return(fn, i) == [ev |-> "return", fn |-> fn, i |-> i, arg |-> ""]
GetOrg(acct) == [ev |-> "GET", fn |-> "org", i |-> 0, arg |-> acct]
GetPage(url, p) == [ev |-> "GET", fn |-> url, i |-> p, arg |-> ""]
GetEnvironments(i) == [ev |-> "GET", fn |-> "environments", i |-> i, arg |-> ""]
GetSecrets(i, env) == [ev |-> "GET", fn |-> "secrets", i |-> i, arg |-> env]
GetVariables(i, env) == [ev |-> "GET", fn |-> "variables", i |-> i, arg |-> env]
Open == [ev |-> "open", fn |-> "csv", i |-> 0, arg |-> ""]
Close == [ev |-> "close", fn |-> "csv", i |-> 0, arg |-> ""]

----------------------------------------------------------------------------
(* State after construction *)

NoLocals ==
    /\ org_response = None /\ base_url = "" /\ page = 0 /\ repos = <<>>
    /\ response = None /\ served = <<>>
    /\ repoIdx = 0 /\ repo_name = "" /\ environments_response = None
    /\ environments = <<>> /\ envIdx = 0
    /\ secrets_response = None /\ variables_response = None /\ results = <<>>

\* main() after argument parsing (lines 142-147)
Init ==
    /\ pc = "main"
    /\ github_token \in Tokens
    /\ org_name = "acme"
    /\ exit_status = <<>>
    /\ disk \in {"absent", "stale"}
    /\ sinkState = "unopened"
    /\ sink = <<>>
    /\ NoLocals
    /\ trace = <<>>

\* list_github_repos called with a token (line 152)
InitResolver ==
    /\ pc = "probe"
    /\ github_token = "ghp_token"
    /\ org_name \in Accounts
    /\ exit_status = <<>>
    /\ disk = "absent"
    /\ sinkState = "unopened"
    /\ sink = <<>>
    /\ NoLocals
    /\ trace = <<Call("list_github_repos", 0)>>

----------------------------------------------------------------------------
(* Actions *)

\* The frame of analyze_github_repo_environments is dropped when it returns.
DropAuditLocals ==
    /\ environments_response' = None
    /\ environments' = <<>>
    /\ envIdx' = 0
    /\ secrets_response' = None
    /\ variables_response' = None
    /\ results' = <<>>

\* lines 147-152: the credential check, then the call of the resolver
CheckToken ==
    /\ pc = "main"
    /\ IF Missing(github_token)
         THEN /\ exit_status' = <<1>>
              /\ pc' = "exited"
              /\ trace' = trace
         ELSE /\ exit_status' = exit_status
              /\ pc' = "probe"
              /\ trace' = Append(trace, Call("list_github_repos", 0))
    /\ UNCHANGED <<github_token, org_name, resolverVars, auditVars, fileVars>>

\* lines 95-111: the organization probe picks the listing endpoint
OrgProbe ==
    /\ pc = "probe"
    /\ \E r \in Responses({<<>>}) :
         /\ org_response' = r
         /\ base_url' = BaseUrl(r.status_code)
    /\ repos' = <<>>
    /\ page' = 1
    /\ trace' = Append(trace, GetOrg(org_name))
    /\ pc' = "page"
    /\ UNCHANGED <<github_token, org_name, exit_status, response, served,
                   auditVars, fileVars>>

\* lines 113-128: one iteration of the paging loop
FetchPage(bodies) ==
    /\ pc = "page"
    /\ page <= NumPages
    /\ \E r \in Responses(bodies) :
         /\ response' = r
         /\ served' = Append(served, r)
         /\ IF PageFailed(r.status_code) \/ Empty(r.json)
              THEN /\ pc' = "return_repos"
                   /\ trace' = Append(trace, GetPage(base_url, page))
                   /\ UNCHANGED <<repos, page>>
              ELSE /\ pc' = "page"
                   /\ trace' = Append(trace, GetPage(base_url, page))
                   /\ repos' = Extend(repos, r.json)
                   /\ page' = NextPage(page)
    /\ UNCHANGED <<github_token, org_name, exit_status, org_response, base_url,
                   auditVars, fileVars>>

\* line 128 and line 152: the list is returned to main, the frame is dropped
ReturnRepos ==
    /\ pc = "return_repos"
    /\ org_response' = None
    /\ base_url' = ""
    /\ page' = 0
    /\ response' = None
    /\ served' = <<>>
    /\ trace' = Append(trace, Return("list_github_repos", 0))
    /\ pc' = "resolved"
    /\ UNCHANGED <<github_token, org_name, exit_status, repos, auditVars,
                   fileVars>>

\* line 156: open(csv_file, 'w') creates or truncates the file
OpenSink ==
    /\ pc = "resolved"
    /\ disk' = "written"
    /\ sinkState' = "open"
    /\ sink' = <<>>
    /\ trace' = Append(trace, Open)
    /\ pc' = "loop"
    /\ UNCHANGED <<github_token, org_name, exit_status, resolverVars, auditVars>>

\* line 158 and lines 18-24: the loop calls the auditor for the next repository
StartAudit ==
    /\ pc = "loop"
    /\ HasNext(repoIdx, repos)
    /\ repoIdx' = repoIdx + 1
    /\ repo_name' = repos[repoIdx + 1]
    /\ trace' = Append(trace, Call("analyze_github_repo_environments", repoIdx + 1))
    /\ pc' = "environments"
    /\ UNCHANGED <<github_token, org_name, exit_status, resolverVars, fileVars,
                   auditLocals>>

\* lines 26-38: the environments listing; a failure leads to the early return
FetchEnvironments ==
    /\ pc = "environments"
    /\ \E r \in Responses(EnvBodies) :
         /\ environments_response' = r
         /\ IF EnvironmentsFailed(r.status_code)
              THEN /\ pc' = "failed"
                   /\ UNCHANGED <<environments, envIdx>>
              ELSE /\ environments' = Get(r.json, "environments", <<>>)
                   /\ envIdx' = 1
                   /\ pc' = IF Get(r.json, "environments", <<>>) = <<>>
                              THEN "write" ELSE "secrets"
    /\ trace' = Append(trace, GetEnvironments(repoIdx))
    /\ results' = <<>>
    /\ UNCHANGED <<github_token, org_name, exit_status, resolverVars, fileVars,
                   repoIdx, repo_name, secrets_response, variables_response>>

\* lines 31-33: the failure is printed and the auditor returns with no row
EarlyReturn ==
    /\ pc = "failed"
    /\ DropAuditLocals
    /\ trace' = Append(trace, Return("analyze_github_repo_environments", repoIdx))
    /\ pc' = "loop"
    /\ UNCHANGED <<github_token, org_name, exit_status, resolverVars, fileVars,
                   repoIdx, repo_name>>

\* lines 41-52: the secrets of the current environment
FetchSecrets ==
    /\ pc = "secrets"
    /\ \E r \in Responses(SecretBodies) :
         /\ secrets_response' = r
         /\ results' =
              IF SecretsOk(r.status_code)
                THEN AppendRows(results,
                        SecretRows(repoIdx, repo_name, envIdx,
                                   environments[envIdx].name,
                                   Get(r.json, "secrets", <<>>)))
                ELSE results
    /\ trace' = Append(trace, GetSecrets(repoIdx, environments[envIdx].name))
    /\ pc' = "variables"
    /\ UNCHANGED <<github_token, org_name, exit_status, resolverVars, fileVars,
                   repoIdx, repo_name, environments_response, environments,
                   envIdx, variables_response>>

\* lines 54-69: the variables of the current environment, then the next one
FetchVariables ==
    /\ pc = "variables"
    /\ \E r \in Responses(VariableBodies) :
         /\ variables_response' = r
         /\ results' =
              IF VariablesOk(r.status_code)
                THEN AppendRows(results,
                        VariableRows(repoIdx, repo_name, envIdx,
                                     environments[envIdx].name,
                                     Get(r.json, "variables", <<>>)))
                ELSE results
    /\ trace' = Append(trace, GetVariables(repoIdx, environments[envIdx].name))
    /\ envIdx' = NextEnv(envIdx)
    /\ pc' = IF NextEnv(envIdx) > Len(environments) THEN "write" ELSE "secrets"
    /\ UNCHANGED <<github_token, org_name, exit_status, resolverVars, fileVars,
                   repoIdx, repo_name, environments_response, environments,
                   secrets_response>>

\* lines 71-75: the rows of the repository go to the sink, and the auditor returns
WriteResults ==
    /\ pc = "write"
    /\ sink' = WriteRows(sink, results)
    /\ trace' = Append(trace, Return("analyze_github_repo_environments", repoIdx))
    /\ DropAuditLocals
    /\ pc' = "loop"
    /\ UNCHANGED <<github_token, org_name, exit_status, resolverVars, repoIdx,
                   repo_name, disk, sinkState>>

\* lines 156-159: the loop is over, the with-block closes the file, main returns
CloseSink ==
    /\ pc = "loop"
    /\ ~HasNext(repoIdx, repos)
    /\ sinkState' = "closed"
    /\ exit_status' = <<0>>
    /\ trace' = Append(trace, Close)
    /\ pc' = "done"
    /\ UNCHANGED <<github_token, org_name, resolverVars, auditVars, disk, sink>>

Next ==
    \/ CheckToken
    \/ OrgProbe
    \/ FetchPage(MainPageBodies)
    \/ ReturnRepos
    \/ OpenSink
    \/ StartAudit
    \/ FetchEnvironments
    \/ EarlyReturn
    \/ FetchSecrets
    \/ FetchVariables
    \/ WriteResults
    \/ CloseSink

Spec == Init /\ [][Next]_vars

\* list_github_repos alone, over every sequence of page responses
NextResolver ==
    \/ OrgProbe
    \/ FetchPage(PageBodies)
    \/ ReturnRepos

SpecResolver == InitResolver /\ [][NextResolver]_vars

\* The call is sequential code: it takes its next step as long as it has one.
FairSpecResolver == SpecResolver /\ WF_vars(NextResolver)

----------------------------------------------------------------------------
(* Properties of list_github_repos, checked under SpecResolver *)

IsPageGet(e) == e.ev = "GET" /\ e.fn \in {"orgs", "users"}
PageGets == SelectSeq(trace, IsPageGet)
InResolver == pc \in {"page", "return_repos"}

\* A page that ends the paging: a status other than 200, or an empty array.
Terminal(r) == r.status_code # 200 \/ Len(r.json) = 0

RECURSIVE NamesOf(_, _)
\* The full names on the first k pages, page after page.
NamesOf(pages, k) ==
    IF k = 0 THEN <<>>
    ELSE NamesOf(pages, k - 1) \o
         [i \in 1..Len(pages[k].json) |-> pages[k].json[i].full_name]

\* C1 as stated: every page request goes to the organization endpoint exactly
\* when the probe returned a 2xx status, and to the user endpoint otherwise.
C1_EndpointFrom2xxProbe ==
    InResolver =>
        \A k \in 1..Len(PageGets) :
            PageGets[k].fn = IF org_response.status_code \in 200..299
                               THEN "orgs" ELSE "users"

\* C1 as amended: every page request goes to the organization endpoint exactly
\* when the probe returned status 200, and to the user endpoint for any other
\* status (another 2xx included); the endpoint is the same for every page.
C1_EndpointFromProbe200 ==
    InResolver =>
        /\ base_url = IF org_response.status_code = 200 THEN "orgs" ELSE "users"
        /\ \A k \in 1..Len(PageGets) : PageGets[k].fn = base_url

\* A probe answered 204, then three page requests, all to the user endpoint.
C1_Witness ==
    /\ pc = "return_repos"
    /\ org_response.status_code = 204
    /\ Len(PageGets) = 3
    /\ \A k \in 1..3 : PageGets[k].fn = "users"

PagingInvariant ==
    /\ \A k \in 1..Len(PageGets) : PageGets[k].i = k
    /\ InResolver => Len(PageGets) = Len(served)
    /\ pc = "page" =>
          /\ page = Len(served) + 1
          /\ \A k \in 1..Len(served) : ~Terminal(served[k])
    /\ pc = "return_repos" =>
          /\ Terminal(served[Len(served)])
          /\ \A k \in 1..(Len(served) - 1) : ~Terminal(served[k])
    /\ pc = "resolved" =>
          /\ trace[Len(trace)] = Return("list_github_repos", 0)
          /\ IsPageGet(trace[Len(trace) - 1])

----------------------------------------------------------------------------
(* Properties of a whole run, checked under Spec *)

Audit == "analyze_github_repo_environments"
Kind(r) == IF r.row[1] = "SECRET" THEN 0 ELSE 1

\* Row a comes before row b in discovery order: repository, then environment,
\* then secrets before variables, then the order of the API response.
Before(a, b) ==
    \/ a.at[1] < b.at[1]
    \/ a.at[1] = b.at[1] /\ a.at[2] < b.at[2]
    \/ a.at[1] = b.at[1] /\ a.at[2] = b.at[2] /\ Kind(a) < Kind(b)
    \/ a.at[1] = b.at[1] /\ a.at[2] = b.at[2] /\ Kind(a) = Kind(b)
         /\ a.at[3] < b.at[3]

InDiscoveryOrder(s) ==
    \A p, q \in 1..Len(s) : p < q => Before(s[p], s[q])

\* C3: the rows of the sink, followed by the rows collected for the repository
\* being audited, are in discovery order; a row's place in that order is the
\* place of its repository in the resolved list, of its environment in the
\* listing and of its secret or variable in the API response.
C3_RowsInDiscoveryOrder ==
    /\ [](/\ InDiscoveryOrder(sink \o results)
          /\ \A k \in 1..Len(sink) : sink[k].row[2] = repos[sink[k].at[1]]
          /\ \A k \in 1..Len(results) :
                /\ results[k].at[1] = repoIdx
                /\ results[k].row[3] = environments[results[k].at[2]].name)
    /\ [][(pc = "secrets" /\ secrets_response'.status_code = 200) =>
            LET S == Get(secrets_response'.json, "secrets", <<>>) IN
            /\ Len(results') = Len(results) + Len(S)
            /\ \A n \in 1..Len(S) :
                  /\ results'[Len(results) + n].at = <<repoIdx, envIdx, n>>
                  /\ results'[Len(results) + n].row[1] = "SECRET"
                  /\ results'[Len(results) + n].row[4] = S[n].name]_vars
    /\ [][(pc = "variables" /\ variables_response'.status_code = 200) =>
            LET V == Get(variables_response'.json, "variables", <<>>) IN
            /\ Len(results') = Len(results) + Len(V)
            /\ \A n \in 1..Len(V) :
                  /\ results'[Len(results) + n].at = <<repoIdx, envIdx, n>>
                  /\ results'[Len(results) + n].row[1] = "VARIABLE"
                  /\ results'[Len(results) + n].row[4] = V[n].name]_vars
    /\ [][pc = "write" => sink' = sink \o results]_vars

\* Two repositories with two environments each, every call answered in full.
C3_Witness ==
    /\ pc = "done"
    /\ Len(sink) = 16
    /\ sink[1].row = <<"SECRET", "o/a", "prod", "B">>
    /\ sink[2].row = <<"SECRET", "o/a", "prod", "A">>
    /\ sink[3].row = <<"VARIABLE", "o/a", "prod", "Y", "">>
    /\ sink[4].row = <<"VARIABLE", "o/a", "prod", "X", "1">>
    /\ sink[5].row = <<"SECRET", "o/a", "dev", "B">>
    /\ sink[9].row = <<"SECRET", "o/b", "prod", "B">>

C5_FailedListingSkipsRepository ==
    /\ [][(pc = "environments" /\ environments_response'.status_code # 200) =>
            /\ pc' = "failed"
            /\ trace' = Append(trace, GetEnvironments(repoIdx))
            /\ results' = <<>>
            /\ sink' = sink]_vars
    /\ [][pc = "failed" =>
            /\ pc' = "loop"
            /\ trace' = Append(trace, Return(Audit, repoIdx))
            /\ sink' = sink
            /\ exit_status' = <<>>]_vars
    /\ [](pc = "done" =>
            \A i \in 1..Len(repos) :
                \E k \in 1..Len(trace) : trace[k] = Call(Audit, i))

\* The listing of the first of two repositories failed.
C5_Witness ==
    /\ pc = "failed"
    /\ environments_response.status_code = 404
    /\ repoIdx = 1
    /\ Len(repos) = 2

\* C6: without the credential the process exits with status 1, and no request
\* is made, no function called, and the file neither created nor truncated.
C6_NoCredentialNoEffect ==
    github_token = Unset =>
        /\ pc \in {"main", "exited"}
        /\ pc = "exited" => exit_status = <<1>>
        /\ exit_status \in {<<>>, <<1>>}
        /\ trace = <<>>
        /\ disk \in {"absent", "stale"}
        /\ sinkState = "unopened"
        /\ sink = <<>>

\* The process has exited with status 1 and the old file is still there.
C6_Witness ==
    /\ github_token = Unset
    /\ pc = "exited"
    /\ exit_status = <<1>>
    /\ disk = "stale"

IsControl(e) == e.ev \in {"call", "return", "open", "close"}
Control == SelectSeq(trace, IsControl)
IsPrefix(s, t) == Len(s) <= Len(t) /\ SubSeq(t, 1, Len(s)) = s

RECURSIVE AuditCalls(_)
\* The calls and returns of the auditor for the first n repositories.
AuditCalls(n) ==
    IF n = 0 THEN <<>>
    ELSE AuditCalls(n - 1) \o <<Call(Audit, n), Return(Audit, n)>>

WholeRun(n) ==
    <<Call("list_github_repos", 0), Return("list_github_repos", 0), Open>>
        \o AuditCalls(n) \o <<Close>>

\* C7: with a credential, the calls of a run are: the resolver, once, to its
\* return; then the opening of the sink; then the auditor for each element of
\* the resolved list in turn, each to its return; then the closing of the sink.
C7_CallOrder ==
    /\ pc \in {"main", "exited"} => Control = <<>>
    /\ pc \in {"probe", "page", "return_repos"} =>
          Control = <<Call("list_github_repos", 0)>>
    /\ pc \in {"resolved", "loop", "environments", "failed", "secrets",
               "variables", "write", "done"} =>
          IsPrefix(Control, WholeRun(Len(repos)))
    /\ pc \in {"environments", "failed", "secrets", "variables", "write"} =>
          /\ repo_name = repos[repoIdx]
          /\ Control[Len(Control)] = Call(Audit, repoIdx)
    /\ pc = "done" => Control = WholeRun(Len(repos))
    /\ sinkState = "open" <=>
          pc \in {"loop", "environments", "failed", "secrets", "variables",
                  "write"}
    /\ sinkState = "closed" <=> pc = "done"
    /\ disk = "written" <=> sinkState # "unopened"

\* A run over two repositories has ended.
C7_Witness ==
    /\ pc = "done"
    /\ repos = <<"o/a", "o/b">>
    /\ Len(Control) = 8

WellShaped(row) ==
    /\ row[1] \in {"SECRET", "VARIABLE"}
    /\ row[1] = "SECRET" => Len(row) = 4
    /\ row[1] = "VARIABLE" => Len(row) = 5

\* C8: every row collected or written has the tag SECRET and 4 fields or the
\* tag VARIABLE and 5 fields; the fifth field is the variable's value, or the
\* empty string when the response has none; the rows written by an invocation
\* carry its repository and the name of one of the environments listed.
C8_RowsWellShaped ==
    /\ [](/\ \A k \in 1..Len(sink) : WellShaped(sink[k].row)
          /\ \A k \in 1..Len(results) : WellShaped(results[k].row))
    /\ [][(pc = "variables" /\ variables_response'.status_code = 200) =>
            LET V == Get(variables_response'.json, "variables", <<>>) IN
            \A n \in 1..Len(V) :
                results'[Len(results) + n].row[5] =
                    IF "value" \in DOMAIN V[n] THEN V[n].value ELSE ""]_vars
    /\ [][pc = "write" =>
            /\ repo_name = repos[repoIdx]
            /\ \A k \in (Len(sink) + 1)..Len(sink') :
                  /\ sink'[k].row[2] = repo_name
                  /\ \E e \in 1..Len(environments) :
                        sink'[k].row[3] = environments[e].name]_vars

\* A variable without a value was written with an empty fifth field, after a
\* secret row.
C8_Witness ==
    /\ Len(sink) >= 3
    /\ sink[1].row = <<"SECRET", "o/a", "dev", "B">>
    /\ sink[3].row = <<"VARIABLE", "o/a", "dev", "Y", "">>

IsGet(e) == e.ev = "GET"
\* The requests of the i-th invocation of the auditor.
RequestsOf(i) ==
    SelectSeq(trace, LAMBDA e : e.ev = "GET" /\ e.i = i
                                 /\ e.fn \in {"environments", "secrets",
                                              "variables"})

RECURSIVE EnvRequests(_, _, _)
\* The secrets and variables requests for the first n environments of envs.
EnvRequests(i, envs, n) ==
    IF n = 0 THEN <<>>
    ELSE EnvRequests(i, envs, n - 1) \o
         <<GetSecrets(i, envs[n].name), GetVariables(i, envs[n].name)>>

====
